---- MODULE Spec2Model ----
(***************************************************************************)
(* A model of da-tools: the ingestion layer (utils/data_reader.py), the    *)
(* profile of a table (utils/data_validation.py) and the metadata store    *)
(* (utils/metadata_manager.py).                                            *)
(*                                                                         *)
(* A DataReader is constructed from a path, a data_source and keyword      *)
(* arguments, and load_data() is then called on it any number of times.    *)
(* Every function of the class is an operator that returns an outcome:     *)
(* the value returned or the exception raised (with its chain of causes),  *)
(* and the log of the calls it made to the outside world (filesystem,      *)
(* boto3, azure, sqlalchemy, pandas).  What the outside world answers is   *)
(* drawn from small sets.                                                  *)
(*                                                                         *)
(* Strings the code takes apart (paths, extensions) are sequences of       *)
(* one-character strings; exception classes, messages and call names are   *)
(* plain strings.                                                          *)
(*                                                                         *)
(* Spec is the life of a reader, SpecValidation the profiling of a table,  *)
(* SpecPercentage the percentage of missing entries as a function of the   *)
(* counts, SpecMetadata the life of the managers of one store, and         *)
(* SpecManager a `with` statement on a DataManager (utils/database.py).    *)
(***************************************************************************)
EXTENDS Integers, Sequences, FiniteSets, TLC

\* ------------------------------------------------------------------ bounds

\* The number of load_data() calls made on one reader.
MaxLoads == 2

\* The largest number of sheets a workbook holds.
MaxSheets == 3

\* The largest value of a cell of a generated table.
MaxValue == 2

\* The largest number of rows of a generated table.
MaxRows == 2

\* The number of generate_summary() calls made on one table.
MaxCalls == 2

\* The largest row count of a column whose every missing count is tried.
MaxTotal == 14

\* The row count of a long column.
LargeTotal == 30000

\* The number of managers constructed on one store.
MaxManagers == 2

\* The number of ObjectIds the store hands out.
MaxIds == 2

\* The number of calls made in the body of one `with` statement.
MaxQueries == 2

\* -------------------------------------------------------------- characters

\* str.lower() on the characters that occur in the modelled paths.
Lower(c) ==
    CASE c = "C" -> "c"
      [] c = "S" -> "s"
      [] c = "V" -> "v"
      [] c = "X" -> "x"
      [] c = "L" -> "l"
      [] OTHER -> c

LowerSeq(s) == [i \in 1..Len(s) |-> Lower(s[i])]

\* The largest index of character c in s, 0 when there is none (rfind, 1-based).
RECURSIVE RFindFrom(_, _, _)
RFindFrom(s, c, i) ==
    IF i = 0 THEN 0
    ELSE IF s[i] = c THEN i
    ELSE RFindFrom(s, c, i - 1)

RFind(s, c) == RFindFrom(s, c, Len(s))

\* PurePath.name: the final component of the path.
PathName(p) == SubSeq(p, RFind(p, "/") + 1, Len(p))

\* PurePath.suffix: from the last dot of the name, unless the name starts or
\* ends with that dot, or has none.
PathSuffix(p) ==
    LET name == PathName(p)
        i == RFind(name, ".")
    IN IF 1 < i /\ i < Len(name) THEN SubSeq(name, i, Len(name)) ELSE <<>>

\* s[1:] of Python: the empty string stays empty.
DropFirst(s) == IF Len(s) = 0 THEN <<>> ELSE SubSeq(s, 2, Len(s))

csv == <<"c", "s", "v">>
parquet == <<"p", "a", "r", "q", "u", "e", "t">>
xlsx == <<"x", "l", "s", "x">>
json == <<"j", "s", "o", "n">>

SUPPORTED_FORMATS == {csv, parquet, xlsx, json}

PARQUET_ENGINES == {"auto", "pyarrow", "fastparquet"}

\* ------------------------------------------------------------- exceptions

\* An exception is the sequence of itself followed by its chain of causes
\* (__cause__): <<raised, its cause, the cause of that, ...>>.
Exc(type, msg) == <<[type |-> type, msg |-> msg]>>

\* raise DataLoadingError(msg) from e
WrapFrom(msg, e) == Exc("DataLoadingError", msg) \o e

NoValue == [kind |-> "none"]

\* A table decoded from sheet number `sheet` of a workbook (0: the source is
\* no workbook).
Table(sheet) == [kind |-> "table", sheet |-> sheet]

TableList(ts) == [kind |-> "list", tables |-> ts]

\* The outcome of a function: it returned val, or raised exc; origin is the
\* exception first raised, before any wrapping; log lists the outside calls.
Return(v, log) == [ok |-> TRUE, val |-> v, exc |-> <<>>, origin |-> <<>>, log |-> log]

Raise(e, log) == [ok |-> FALSE, val |-> NoValue, exc |-> e, origin |-> e, log |-> log]

\* An except clause that re-raises r's exception wrapped in DataLoadingError.
Rewrap(msg, r) == [r EXCEPT !.exc = WrapFrom(msg, r.exc)]

\* ---------------------------------------------------------- outside world

\* The classes an outside call raises when it fails; the environment picks
\* one of the two.
Raises(call) ==
    CASE call = "boto3.client" -> <<"BotoCoreError", "ValueError">>
      [] call = "s3.get_object" -> <<"BotoCoreError", "ClientError">>
      [] call = "azure.client" -> <<"ValueError", "TypeError">>
      [] call = "azure.download_blob" -> <<"HttpResponseError", "ResourceNotFoundError">>
      [] call = "create_engine" -> <<"ArgumentError", "NoSuchModuleError">>
      [] call = "read_sql" -> <<"OperationalError", "ProgrammingError">>
      [] call = "read_csv" -> <<"ParserError", "FileNotFoundError">>
      [] call = "ExcelFile" -> <<"ImportError", "BadZipFile">>
      [] call = "parse" -> <<"ValueError", "TypeError">>
      [] OTHER -> <<"ValueError", "OSError">>

\* The k-th outside call of an invocation: "ok", or the class it raises.
Answer(call, k, env) == IF env.failAt = k THEN Raises(call)[env.exc] ELSE "ok"

Ev(call, answer) == [call |-> call, ok |-> answer = "ok"]

\* The calls that read the source's data from its backend.
FetchCalls ==
    {"s3.get_object", "azure.download_blob", "read_sql", "read_csv",
     "read_parquet", "read_json", "ExcelFile"}

\* The calls that decode an in-memory payload.
DecodeCalls ==
    {"read_csv(bytes)", "read_parquet(bytes)", "read_excel(bytes)", "read_json(bytes)"}

BackendOf(call) ==
    CASE call \in {"boto3.client", "s3.get_object"} -> "s3"
      [] call \in {"azure.client", "azure.download_blob"} -> "azure"
      [] call \in {"create_engine", "read_sql", "engine.dispose"} -> "database"
      [] call \in {"exists", "is_file", "read_csv", "read_parquet", "read_json",
                   "ExcelFile", "parse", "ExcelFile.close"} -> "file"
      [] OTHER -> "memory"

\* ------------------------------------------------------------ construction

\* dict.get(key, default)
Get(kwargs, key, default) == IF key \in DOMAIN kwargs THEN kwargs[key] ELSE default

Unset == <<"?">>

\* _get_file_type without lower(): a mutant.
GetFileTypeCaseSensitive(data_path) ==
    LET suffix == DropFirst(PathSuffix(data_path))
    IN IF suffix \notin SUPPORTED_FORMATS
       THEN Raise(Exc("ValueError", "Unsupported format"), <<>>)
       ELSE Return(suffix, <<>>)

\* _get_file_type: the lower-cased suffix without its dot, or ValueError.
GetFileType(data_path) ==
    LET suffix == DropFirst(LowerSeq(PathSuffix(data_path)))
    IN IF suffix \notin SUPPORTED_FORMATS
       THEN Raise(Exc("ValueError", "Unsupported format"), <<>>)
       ELSE Return(suffix, <<>>)

\* _validate_path without the is_file check: a mutant.
ValidatePathExistsOnly(fs) ==
    IF fs = "missing"
    THEN Raise(Exc("FileNotFoundError", "Data file not found"), <<Ev("exists", "ok")>>)
    ELSE Return(NoValue, <<Ev("exists", "ok")>>)

\* _validate_path: the path exists and is a regular file.
ValidatePath(fs) ==
    IF fs = "missing"
    THEN Raise(Exc("FileNotFoundError", "Data file not found"), <<Ev("exists", "ok")>>)
    ELSE IF fs # "file"
    THEN Raise(Exc("ValueError", "Not a file"), <<Ev("exists", "ok"), Ev("is_file", "ok")>>)
    ELSE Return(NoValue, <<Ev("exists", "ok"), Ev("is_file", "ok")>>)

\* The attributes of the object __init__ builds.
Reader(data_path, data_source, kwargs, file_type) ==
    [data_path |-> data_path, data_source |-> data_source, kwargs |-> kwargs,
     file_type |-> file_type]

\* __init__ with the two checks in the other order: a mutant.
DataReaderInitPathFirst(data_path, data_source, kwargs, fs) ==
    LET vp == IF data_source \notin {"s3", "azure", "database"} THEN ValidatePath(fs)
              ELSE Return(NoValue, <<>>)
        ft == IF data_source # "database" THEN GetFileType(data_path)
              ELSE Return(Unset, <<>>)
    IN IF ~vp.ok THEN vp
       ELSE IF ~ft.ok THEN [ft EXCEPT !.log = vp.log]
       ELSE Return(Reader(data_path, data_source, kwargs, ft.val), vp.log)

\* __init__ with the path validated for every source but a database: a
\* mutant.
DataReaderInitChecksRemote(data_path, data_source, kwargs, fs) ==
    LET ft == IF data_source # "database" THEN GetFileType(data_path)
              ELSE Return(Unset, <<>>)
    IN IF ~ft.ok THEN ft
       ELSE IF data_source # "database"
       THEN LET vp == ValidatePath(fs)
            IN IF ~vp.ok THEN [vp EXCEPT !.log = ft.log \o vp.log]
               ELSE Return(Reader(data_path, data_source, kwargs, ft.val), ft.log \o vp.log)
       ELSE Return(Reader(data_path, data_source, kwargs, ft.val), ft.log)

\* DataReader.__init__: the format is resolved unless the source is a
\* database, then the path is validated unless the source is remote.
DataReaderInit(data_path, data_source, kwargs, fs) ==
    LET ft == IF data_source # "database" THEN GetFileType(data_path)
              ELSE Return(Unset, <<>>)
    IN IF ~ft.ok THEN ft
       ELSE IF data_source \notin {"s3", "azure", "database"}
       THEN LET vp == ValidatePath(fs)
            IN IF ~vp.ok THEN [vp EXCEPT !.log = ft.log \o vp.log]
               ELSE Return(Reader(data_path, data_source, kwargs, ft.val), ft.log \o vp.log)
       ELSE Return(Reader(data_path, data_source, kwargs, ft.val), ft.log)

\* ----------------------------------------------------------------- loading

\* One outside call: it returns v, or raises the class the environment picked.
External(call, k, env, v) ==
    LET a == Answer(call, k, env)
    IN IF a = "ok" THEN Return(v, <<Ev(call, a)>>)
       ELSE Raise(Exc(a, call), <<Ev(call, a)>>)

\* Statement r followed by statement s: s runs only if r returned.
Then(r, s) == IF ~r.ok THEN r ELSE [s EXCEPT !.log = r.log \o s.log]

\* self.kwargs[key]: KeyError when the key was not passed.
Subscript(kwargs, key) ==
    IF key \in DOMAIN kwargs THEN Return(kwargs[key], <<>>)
    ELSE Raise(Exc("KeyError", key), <<>>)

\* self.data_path is a pathlib.Path (__init__ wraps the argument), and a Path
\* has no attribute `split`.
PathHasSplit == FALSE

\* _validate_df: warns about an empty table and logs the missing values; it
\* raises nothing.
ValidateDf(df) == Return(NoValue, <<>>)

\* _load_from_file_object: decodes the payload by the resolved format.  A
\* spreadsheet is read with read_excel's defaults: its first sheet, one table.
LoadFromFileObject(self, sheet_names, env, k) ==
    IF self.file_type = csv THEN External("read_csv(bytes)", k, env, Table(0))
    ELSE IF self.file_type = parquet THEN External("read_parquet(bytes)", k, env, Table(0))
    ELSE IF self.file_type = xlsx
    THEN External("read_excel(bytes)", k, env, Table(sheet_names[1]))
    ELSE IF self.file_type = json THEN External("read_json(bytes)", k, env, Table(0))
    ELSE Raise(Exc("DataLoadingError", "Unsupported file format for blob storage"), <<>>)

\* _load_from_s3: only a BotoCoreError is caught and wrapped.
LoadFromS3(self, sheet_names, env) ==
    LET client == External("boto3.client", 1, env, NoValue)
        split == IF PathHasSplit THEN Return(NoValue, <<>>)
                 ELSE Raise(Exc("AttributeError", "split"), <<>>)
        obj == External("s3.get_object", 2, env, NoValue)
        body == Then(client, Then(split, Then(obj,
                    LoadFromFileObject(self, sheet_names, env, 3))))
    IN IF ~body.ok /\ body.exc[1].type = "BotoCoreError"
       THEN Rewrap("S3 error", body)
       ELSE body

\* _load_from_azure: every Exception is caught and wrapped.  The blob is named
\* by the Path object itself; whether the client takes it is the outside
\* world's answer to "azure.client".
LoadFromAzure(self, sheet_names, env) ==
    LET conn == Subscript(self.kwargs, "connection_string")
        container == Subscript(self.kwargs, "container")
        client == External("azure.client", 1, env, NoValue)
        stream == External("azure.download_blob", 2, env, NoValue)
        body == Then(conn, Then(container, Then(client, Then(stream,
                    LoadFromFileObject(self, sheet_names, env, 3)))))
    IN IF ~body.ok THEN Rewrap("Azure Blob error", body) ELSE body

\* _load_from_database: an engine is created and handed to read_sql; every
\* Exception is caught and wrapped.  Nothing disposes of the engine.
LoadFromDatabase(self, env) ==
    LET conn == Subscript(self.kwargs, "connection_string")
        engine == External("create_engine", 1, env, NoValue)
        query == Subscript(self.kwargs, "query")
        df == External("read_sql", 2, env, Table(0))
        body == Then(conn, Then(engine, Then(query, Then(df,
                    Then(ValidateDf(Table(0)), Return(Table(0), <<>>))))))
    IN IF ~body.ok THEN Rewrap("Database error", body) ELSE body

\* _load_csv: only a ParserError is caught and wrapped.
LoadCsv(self, env) ==
    LET df == External("read_csv", 1, env, Table(0))
        body == Then(df, Then(ValidateDf(Table(0)), Return(Table(0), <<>>)))
    IN IF ~body.ok /\ body.exc[1].type = "ParserError"
       THEN Rewrap("CSV parsing error", body)
       ELSE body

\* _load_parquet: the engine is checked against the allow-list, then read.
LoadParquet(self, env) ==
    LET engine == Get(self.kwargs, "engine", "auto")
    IN IF engine \notin PARQUET_ENGINES
       THEN Raise(Exc("DataLoadingError", "Invalid Parquet engine"), <<>>)
       ELSE External("read_parquet", 1, env, Table(0))

\* _load_json
LoadJson(self, env) == External("read_json", 1, env, Table(0))

Range(f) == {f[i] : i \in DOMAIN f}

\* excel.parse(sheet): the sheet's table; ValueError when the workbook has no
\* such sheet.  It is outside call number k.
Parse(sheet, sheet_names, env, k) ==
    LET a == IF env.failAt = k THEN Answer("parse", k, env)
             ELSE IF sheet \notin Range(sheet_names) THEN "ValueError"
             ELSE "ok"
    IN IF a = "ok" THEN Return(Table(sheet), <<Ev("parse", a)>>)
       ELSE Raise(Exc(a, "parse"), <<Ev("parse", a)>>)

\* One more element of the list comprehension: the table just parsed before
\* the tables of the sheets after it, or the first failure and no table.
Collect(one, rest) ==
    IF ~one.ok THEN one
    ELSE IF ~rest.ok THEN [rest EXCEPT !.log = one.log \o rest.log]
    ELSE Return(<<one.val>> \o rest.val, one.log \o rest.log)

\* The list comprehension, keeping what was parsed when a sheet fails: a mutant.
RECURSIVE ParseAllPartial(_, _, _, _)
ParseAllPartial(names, i, sheet_names, env) ==
    IF i > Len(names) \/ ~Parse(names[i], sheet_names, env, i + 1).ok
    THEN Return(<<>>, <<>>)
    ELSE Collect(Parse(names[i], sheet_names, env, i + 1),
                 ParseAllPartial(names, i + 1, sheet_names, env))

\* [excel.parse(sheet) for sheet in names], from the i-th name on: the tables
\* in the order of the names.  Parsing sheet i is outside call i + 1.
RECURSIVE ParseAll(_, _, _, _)
ParseAll(names, i, sheet_names, env) ==
    IF i > Len(names) THEN Return(<<>>, <<>>)
    ELSE Collect(Parse(names[i], sheet_names, env, i + 1),
                 ParseAll(names, i + 1, sheet_names, env))

\* _load_excel: the requested sheets when `sheets` is given and not empty,
\* every sheet of the workbook otherwise.  The workbook is closed on every way
\* out of the with block; ValueError and ImportError are caught and wrapped.
LoadExcel(self, sheet_names, env) ==
    LET sheets == Get(self.kwargs, "sheets", <<>>)
        excel == External("ExcelFile", 1, env, NoValue)
        names == IF Len(sheets) > 0 THEN sheets ELSE sheet_names
        parsed == ParseAll(names, 1, sheet_names, env)
        closed == [parsed EXCEPT !.log = parsed.log \o <<Ev("ExcelFile.close", "ok")>>,
                                 !.val = IF parsed.ok THEN TableList(parsed.val)
                                         ELSE NoValue]
        body == Then(excel, closed)
    IN IF ~body.ok /\ body.exc[1].type \in {"ValueError", "ImportError"}
       THEN Rewrap("Excel loading failed", body)
       ELSE body

\* _load_from_file: dispatch on the resolved format; every Exception,
\* DataLoadingError included, is caught and wrapped.
LoadFromFile(self, sheet_names, env) ==
    LET body == IF self.file_type = csv THEN LoadCsv(self, env)
                ELSE IF self.file_type = parquet THEN LoadParquet(self, env)
                ELSE IF self.file_type = xlsx THEN LoadExcel(self, sheet_names, env)
                ELSE IF self.file_type = json THEN LoadJson(self, env)
                ELSE Raise(Exc("DataLoadingError", "Unsupported file type"), <<>>)
    IN IF ~body.ok THEN Rewrap("Data loading failed", body) ELSE body

\* The loaders load_data dispatches to.
Loaders == {"_load_from_s3", "_load_from_azure", "_load_from_database", "_load_from_file"}

\* A call of loader `name`, whose outcome is r: the call is logged first.
CallLoader(name, r) == [r EXCEPT !.log = <<Ev(name, "ok")>> \o r.log]

\* The dispatch of load_data on data_source: one loader is called.
Dispatch(self, sheet_names, env) ==
    IF self.data_source = "s3"
    THEN CallLoader("_load_from_s3", LoadFromS3(self, sheet_names, env))
    ELSE IF self.data_source = "azure"
    THEN CallLoader("_load_from_azure", LoadFromAzure(self, sheet_names, env))
    ELSE IF self.data_source = "database"
    THEN CallLoader("_load_from_database", LoadFromDatabase(self, env))
    ELSE CallLoader("_load_from_file", LoadFromFile(self, sheet_names, env))

\* load_data raising DataLoadingError without `from e`: a mutant.
LoadDataNoCause(self, sheet_names, env) ==
    LET body == Dispatch(self, sheet_names, env)
    IN IF ~body.ok THEN [body EXCEPT !.exc = Exc("DataLoadingError", "Data loading failed")]
       ELSE body

\* load_data trying the backend a second time when the first try fails: a
\* mutant.
LoadDataRetry(self, sheet_names, env) ==
    LET body == Dispatch(self, sheet_names, env)
        again == [body EXCEPT !.log = body.log \o body.log]
    IN IF ~body.ok THEN Rewrap("Data loading failed", again) ELSE body

\* load_data: one backend by data_source; every Exception, DataLoadingError
\* included, is caught and wrapped.
LoadDataOp(self, sheet_names, env) ==
    LET body == Dispatch(self, sheet_names, env)
    IN IF ~body.ok THEN Rewrap("Data loading failed", body) ELSE body

\* The reader after a load_data() that took "sheets" out of kwargs with
\* dict.pop.
SelfAfterLoadPop(self) ==
    [self EXCEPT !.kwargs = [key \in DOMAIN self.kwargs \ {"sheets"} |-> self.kwargs[key]]]

\* The reader after load_data(): the method and its loaders read data_path,
\* data_source, _file_type and kwargs (dict.get, subscripts) and assign no
\* attribute of self.
SelfAfterLoad(self) == self

\* --------------------------------------------------------------- the table

\* A table (pandas.DataFrame) is its column names, the dtype of each column
\* ("number" or "object") and its rows; a row holds one cell per column.  A
\* cell is <<v>> for the value v and <<>> when the entry is missing (NaN,
\* None); the values of an object column are numbered.  A float the code
\* computes is written the same way: <<>> is NaN and <<n>> is n units, the
\* unit being a hundredth for a percentage, a quarter for a quantile and an
\* eighth for a bound.
NaN == <<>>

DataFrame(columns, dtypes, rows) == [columns |-> columns, dtypes |-> dtypes, rows |-> rows]

\* df.columns as a set, and the position of a column.
Columns(df) == {df.columns[j] : j \in DOMAIN df.columns}

Position(df, col) == CHOOSE j \in DOMAIN df.columns : df.columns[j] = col

\* df[col]: the cells of the column, one per row.
Column(df, col) == [i \in DOMAIN df.rows |-> df.rows[i][Position(df, col)]]

\* len(df)
RowCount(df) == Len(df.rows)

\* ----------------------------------------- utils/data_validation.py

\* DataValidation.__init__: the validator keeps the caller's table itself.
DataValidationInit(df) == [df |-> df]

\* round(): the multiple of 1/d nearest to n/d, the even one of two that are
\* equally near (numpy.round).
RoundHalfEven(n, d) ==
    LET q == n \div d
        r == n % d
    IN IF 2 * r < d THEN q
       ELSE IF 2 * r > d THEN q + 1
       ELSE IF q % 2 = 0 THEN q ELSE q + 1

\* (missing_counts / total_rows * 100).round(2) for one column, in hundredths:
\* 0 / 0 is NaN.
MissingPercentageTruncated(missing_count, total_rows) ==
    IF total_rows = 0 THEN NaN
    ELSE <<(missing_count * 10000) \div total_rows>>

MissingPercentage(missing_count, total_rows) ==
    IF total_rows = 0 THEN NaN
    ELSE <<RoundHalfEven(missing_count * 10000, total_rows)>>

\* df.isnull().sum() for one column.
MissingCount(cells) == Cardinality({i \in DOMAIN cells : cells[i] = NaN})

\* check_missing_values
CheckMissingValues(self) ==
    LET missing_counts == [c \in Columns(self.df) |-> MissingCount(Column(self.df, c))]
        total_rows == RowCount(self.df)
    IN [missing_counts |-> missing_counts,
        missing_percentage |->
            [c \in Columns(self.df) |-> MissingPercentage(missing_counts[c], total_rows)]]

\* df.duplicated(): a row is marked when an earlier row equals it, missing
\* entries being equal to each other; without keep="first" every row that has
\* an equal is marked.
DuplicatedKeepNone(df) ==
    [i \in DOMAIN df.rows |-> \E k \in DOMAIN df.rows : k # i /\ df.rows[k] = df.rows[i]]

Duplicated(df) ==
    [i \in DOMAIN df.rows |-> \E k \in 1..(i - 1) : df.rows[k] = df.rows[i]]

\* check_duplicates
CheckDuplicates(self) ==
    LET marks == Duplicated(self.df)
    IN Cardinality({i \in DOMAIN marks : marks[i]})

\* check_data_types
CheckDataTypes(self) ==
    [c \in Columns(self.df) |-> self.df.dtypes[Position(self.df, c)]]

\* The values of s in ascending order.
RECURSIVE Insert(_, _)
Insert(x, s) ==
    IF s = <<>> THEN <<x>>
    ELSE IF x <= s[1] THEN <<x>> \o s
    ELSE <<s[1]>> \o Insert(x, Tail(s))

RECURSIVE SortValues(_)
SortValues(s) == IF s = <<>> THEN <<>> ELSE Insert(s[1], SortValues(Tail(s)))

\* Series.dropna(): the values of the cells that are not missing.
IsPresent(cell) == cell # NaN

DropNa(cells) ==
    LET kept == SelectSeq(cells, IsPresent)
    IN [i \in DOMAIN kept |-> kept[i][1]]

\* Series.quantile(k / 4), in quarters: missing entries are skipped, the
\* quantile of no values is NaN, and otherwise it lies at position
\* (n - 1) * k / 4 of the sorted values, between two neighbours in proportion
\* (interpolation="linear").
Quantile(cells, k) ==
    LET values == SortValues(DropNa(cells))
        h == (Len(values) - 1) * k
        lo == (h \div 4) + 1
        hi == IF h % 4 = 0 THEN lo ELSE lo + 1
    IN IF Len(values) = 0 THEN NaN
       ELSE <<4 * values[lo] + (h % 4) * (values[hi] - values[lo])>>

\* self.df.select_dtypes(include=['number'])
NumericColumns(df) == {c \in Columns(df) : df.dtypes[Position(df, c)] = "number"}

\* The body of the loop of check_outliers for one column; the bounds are in
\* eighths.  A comparison with NaN is false.
OutliersClosed(cells) ==
    LET Q1 == Quantile(cells, 1)
        Q3 == Quantile(cells, 3)
    IN IF Q1 = NaN
       THEN [lower_bound |-> NaN, upper_bound |-> NaN, outlier_count |-> 0]
       ELSE LET IQR == Q3[1] - Q1[1]
                lower_bound == 2 * Q1[1] - 3 * IQR
                upper_bound == 2 * Q3[1] + 3 * IQR
            IN [lower_bound |-> <<lower_bound>>,
                upper_bound |-> <<upper_bound>>,
                outlier_count |->
                    Cardinality({i \in DOMAIN cells :
                        /\ cells[i] # NaN
                        /\ \/ 8 * cells[i][1] <= lower_bound
                           \/ 8 * cells[i][1] >= upper_bound})]

Outliers(cells) ==
    LET Q1 == Quantile(cells, 1)
        Q3 == Quantile(cells, 3)
    IN IF Q1 = NaN
       THEN [lower_bound |-> NaN, upper_bound |-> NaN, outlier_count |-> 0]
       ELSE LET IQR == Q3[1] - Q1[1]
                lower_bound == 2 * Q1[1] - 3 * IQR
                upper_bound == 2 * Q3[1] + 3 * IQR
            IN [lower_bound |-> <<lower_bound>>,
                upper_bound |-> <<upper_bound>>,
                outlier_count |->
                    Cardinality({i \in DOMAIN cells :
                        /\ cells[i] # NaN
                        /\ \/ 8 * cells[i][1] < lower_bound
                           \/ 8 * cells[i][1] > upper_bound})]

\* check_outliers
CheckOutliers(self) ==
    [c \in NumericColumns(self.df) |-> Outliers(Column(self.df, c))]

\* Series.nunique(): the distinct values, the missing ones counted when
\* dropna is off.
NUniqueWithNa(cells) == Cardinality({cells[i] : i \in DOMAIN cells})

NUnique(cells) == Cardinality({cells[i] : i \in DOMAIN cells} \ {NaN})

\* check_unique_values
CheckUniqueValues(self) ==
    [c \in Columns(self.df) |-> NUnique(Column(self.df, c))]

\* df.drop_duplicates(inplace=True)
DropDuplicates(df) ==
    LET marks == Duplicated(df)
        kept == SelectSeq([i \in DOMAIN df.rows |-> <<i, df.rows[i]>>],
                          LAMBDA p : ~marks[p[1]])
    IN DataFrame(df.columns, df.dtypes, [i \in DOMAIN kept |-> kept[i][2]])

\* The five checks on one validator.
Summary(validator) ==
    [missing_values |-> CheckMissingValues(validator),
     duplicate_rows |-> CheckDuplicates(validator),
     data_types |-> CheckDataTypes(validator),
     outliers |-> CheckOutliers(validator),
     unique_values |-> CheckUniqueValues(validator)]

\* generate_summary with a duplicate check that drops the repeats from the
\* table it is given.
GenerateSummaryInPlace(df) ==
    LET validator == DataValidationInit(df)
    IN [summary |-> Summary(validator), df |-> DropDuplicates(validator.df)]

\* DataValidation.generate_summary(df): the summary returned and the table as
\* the call leaves it.
GenerateSummaryOp(df) ==
    LET validator == DataValidationInit(df)
    IN [summary |-> Summary(validator), df |-> validator.df]

\* ------------------------------------------- utils/metadata_manager.py

\* The "metadata" collection: its documents in insertion order, whether the
\* unique index on dashboard_name exists, and the number of ObjectIds handed
\* out so far.
Collection(docs, unique, ids) == [docs |-> docs, unique |-> unique, ids |-> ids]

\* What a method of the manager leaves behind: the manager, the collection,
\* and the value returned or the exception raised.
Done(self, collection, val) ==
    [self |-> self, collection |-> collection, ok |-> TRUE, val |-> val, exc |-> <<>>]

Failed(self, collection, e) ==
    [self |-> self, collection |-> collection, ok |-> FALSE, val |-> NoValue, exc |-> e]

\* MetadataManager.__init__ without the index on dashboard_name.
MetadataManagerInitNoIndex(df, dashboard_name, collection) ==
    Done([df |-> df, dashboard_name |-> dashboard_name], collection, NoValue)

\* MetadataManager.__init__: the attributes set (metadata is not one of them)
\* and create_index("dashboard_name", unique=True).
MetadataManagerInit(df, dashboard_name, collection) ==
    Done([df |-> df, dashboard_name |-> dashboard_name],
         [collection EXCEPT !.unique = TRUE],
         NoValue)

\* The size of the sample generate_metadata takes of each column.
SampleSize == 5

\* The ways sample(5) can fall on each column of df: a set of five positions
\* among the column's values that are not missing.  The order in which the
\* sample lists them is not modelled; a column with fewer than five such
\* values has no sample.
Picks(df) ==
    {pick \in [Columns(df) -> SUBSET (1..RowCount(df))] :
        \A c \in Columns(df) :
            LET n == Len(DropNa(Column(df, c)))
            IN IF n < SampleSize THEN pick[c] = {}
               ELSE pick[c] \subseteq 1..n /\ Cardinality(pick[c]) = SampleSize}

\* self.df[col].dropna().sample(5).tolist() as pick has it fall.
SampleValues(cells, positions) ==
    LET values == DropNa(cells)
        chosen == SelectSeq([i \in DOMAIN values |-> <<i, values[i]>>],
                            LAMBDA p : p[1] \in positions)
    IN [i \in DOMAIN chosen |-> chosen[i][2]]

\* generate_metadata(summary): sample() raises ValueError on a column with
\* fewer than five values, and then self.metadata is not assigned.
GenerateMetadata(self, summary, pick, collection) ==
    IF \E c \in Columns(self.df) : Len(DropNa(Column(self.df, c))) < SampleSize
    THEN Failed(self, collection, Exc("ValueError", "Cannot take a larger sample than population"))
    ELSE LET metadata_list ==
                 [j \in DOMAIN self.df.columns |->
                     [column_name |-> self.df.columns[j],
                      data_type |-> self.df.dtypes[j],
                      sample_values |->
                          SampleValues(Column(self.df, self.df.columns[j]),
                                       pick[self.df.columns[j]])]]
             metadata == [dashboard_name |-> self.dashboard_name,
                          columns |-> metadata_list,
                          data_summary |-> summary]
         IN Done([df |-> self.df, dashboard_name |-> self.dashboard_name,
                  metadata |-> metadata],
                 collection, metadata)

\* collection.insert_one(document): a document without _id is given a fresh
\* one, in place, before anything is sent; the insert is refused when the _id
\* or, under the unique index, the dashboard_name is already stored.
WithId(document, collection) ==
    IF "_id" \in DOMAIN document THEN document
    ELSE [_id |-> collection.ids + 1] @@ document

IdsAfter(document, collection) ==
    IF "_id" \in DOMAIN document THEN collection.ids ELSE collection.ids + 1

DuplicateKey(document, collection) ==
    \E i \in DOMAIN collection.docs :
        \/ collection.docs[i]["_id"] = document["_id"]
        \/ /\ collection.unique
           /\ collection.docs[i].dashboard_name = document.dashboard_name

\* save_metadata(): reading self.metadata before generate_metadata has
\* assigned it raises AttributeError; DuplicateKeyError is caught.
SaveMetadata(self, collection) ==
    IF "metadata" \notin DOMAIN self
    THEN Failed(self, collection, Exc("AttributeError", "metadata"))
    ELSE LET document == WithId(self.metadata, collection)
             ids == IdsAfter(self.metadata, collection)
             kept == [self EXCEPT !.metadata = document]
         IN IF DuplicateKey(document, collection)
            THEN Done(kept, [collection EXCEPT !.ids = ids], NoValue)
            ELSE Done(kept,
                      [collection EXCEPT !.ids = ids,
                                         !.docs = Append(collection.docs, document)],
                      NoValue)

\* retrieve_metadata(dashboard_name): find_one with the projection
\* {"_id": 0, "columns": 1} returns the columns of the first match, or None.
RetrieveMetadata(self, collection, dashboard_name) ==
    LET found == SelectSeq(collection.docs,
                           LAMBDA d : d.dashboard_name = dashboard_name)
    IN IF found = <<>> THEN Done(self, collection, NoValue)
       ELSE Done(self, collection, [columns |-> found[1].columns])

\* ------------------------------------------------- utils/database.py

\* Python's None among the strings, and `a or b`: b when a is None or empty.
None == "None"

Or(a, b) == IF a \in {None, ""} THEN b ELSE a

\* What a method of the DataManager leaves behind: the manager, and the value
\* returned or the exception raised.
Returned(self, val) == [self |-> self, ok |-> TRUE, val |-> val, exc |-> <<>>]

Threw(self, e) == [self |-> self, ok |-> FALSE, val |-> NoValue, exc |-> e]

\* DataManager.__init__: each parameter, or else its environment variable;
\* engine and connection start as None.
DataManagerInit(host, database, user, password, environ) ==
    [host |-> Or(host, environ.POSTGRES_HOST),
     database |-> Or(database, environ.POSTGRES_DB),
     user |-> Or(user, environ.POSTGRES_USER),
     password |-> Or(password, environ.POSTGRES_PASSWORD),
     engine |-> None,
     connection |-> None]

\* __enter__: self.engine is assigned before self.engine.connect() is
\* called, so when connect() raises the engine stays with the manager,
\* created and not disposed.  db says what create_engine and connect do.
Enter(self, db) ==
    IF db.create_engine # "ok"
    THEN Threw(self, Exc(db.create_engine, "create_engine"))
    ELSE IF db.connect # "ok"
    THEN Threw([self EXCEPT !.engine = "open"], Exc(db.connect, "connect"))
    ELSE Returned([self EXCEPT !.engine = "open", !.connection = "open"], NoValue)

\* __exit__: the connection is closed and the engine disposed, each when the
\* attribute is set; it returns None, so an exception of the body goes on.
Exit(self) ==
    Returned([self EXCEPT
                 !.connection = IF self.connection # None THEN "closed" ELSE None,
                 !.engine = IF self.engine # None THEN "disposed" ELSE None],
             NoValue)

\* run_query(query, read_only): the rows of a SELECT or the row count;
\* SQLAlchemyError is printed and raised again; without a connection
\* None.execute is an AttributeError.
RunQuery(self, read_only, answer) ==
    IF self.connection = None THEN Threw(self, Exc("AttributeError", "execute"))
    ELSE IF answer # "ok" THEN Threw(self, Exc(answer, "execute"))
    ELSE Returned(self, IF read_only THEN [kind |-> "rows"] ELSE [kind |-> "rowcount"])

\* import_df(df, table_name): to_sql on the connection; SQLAlchemyError is
\* printed and raised again.
ImportDf(self, answer) ==
    IF answer # "ok" THEN Threw(self, Exc(answer, "to_sql"))
    ELSE Returned(self, NoValue)

\* ------------------------------------------------------------------- state

VARIABLES
    pc,           \* "new": no reader yet; "ready": constructed; "failed": __init__ raised
    reader,       \* the reader's attributes (the arguments, when __init__ raised)
    fs,           \* what data_path is on the local filesystem
    sheet_names,  \* the sheets of the workbook at data_path, in its own order
    result,       \* what the caller got from the last call: op, ok, val, exc, origin
    log,          \* the outside calls the last call made, in order
    loads,        \* the number of load_data() calls made
    openEngines,  \* the engines created and not disposed
    built,        \* the reader's attributes as __init__ left them
    given,        \* the table the caller profiles, as it was handed over
    df,           \* the same table, as the calls made so far have left it
    profiles,     \* the summaries generate_summary has returned, in order
    mv,           \* one column's missing count, the row count and the percentage
    collection,   \* the "metadata" collection of the store
    managers,     \* the MetadataManager instances constructed, in order
    answer,       \* what the last call on a manager did: op, who, ok, val, exc, before
    dm,           \* the DataManager's attributes
    scope         \* where its `with` statement is, the exception in flight, the calls made

readerVars == <<pc, reader, fs, sheet_names, result, log, loads, openEngines, built>>

validationVars == <<given, df, profiles>>

percentageVars == <<mv>>

metadataVars == <<collection, managers, answer>>

managerVars == <<dm, scope>>

vars == <<readerVars, validationVars, percentageVars, metadataVars, managerVars>>

\* The paths tried: d.csv, d.CSV, d.txt, d.xlsx, d.parquet, d.json, d, .csv
\* and a.csv/d.
Paths ==
    {<<"d", ".", "c", "s", "v">>,
     <<"d", ".", "C", "S", "V">>,
     <<"d", ".", "t", "x", "t">>,
     <<"d", ".", "x", "l", "s", "x">>,
     <<"d", ".", "p", "a", "r", "q", "u", "e", "t">>,
     <<"d", ".", "j", "s", "o", "n">>,
     <<"d">>,
     <<".", "c", "s", "v">>,
     <<"a", ".", "c", "s", "v", "/", "d">>}

\* data_source: None (not given), the documented names, and a name that is
\* none of them.
Sources == {"None", "local", "s3", "azure", "database", "gcs"}

\* The keyword arguments tried.  Sheets are named by numbers.  The class
\* takes any keyword and keeps it in kwargs; format is one it never reads.
KwargsSet ==
    {<<>>,
     [sheets |-> <<>>],
     [sheets |-> <<2>>],
     [sheets |-> <<1, 2>>],
     [sheets |-> <<2, 2>>],
     [engine |-> "pyarrow"],
     [engine |-> "bogus"],
     [format |-> csv],
     [connection_string |-> "conn"],
     [connection_string |-> "conn", container |-> "c", query |-> "q"],
     [connection_string |-> "conn", container |-> "c", sheets |-> <<2>>],
     [connection_string |-> "conn", container |-> "c", engine |-> "bogus"]}

\* A workbook of n sheets, n first: <<n, ..., 1>>.
Workbook(n) == [i \in 1..n |-> n + 1 - i]

Workbooks == {Workbook(n) : n \in 1..MaxSheets}

\* What the outside world does during one load_data(): which outside call
\* fails (0: none) and with which of its two classes.
Envs == [failAt : 0..(MaxSheets + 1), exc : 1..2]

NoReader == Reader(<<>>, "None", <<>>, Unset)

Outcome(op, r) == [op |-> op, ok |-> r.ok, val |-> r.val, exc |-> r.exc, origin |-> r.origin]

\* The number of entries of log l that satisfy Test.
RECURSIVE Count(_, _, _)
Count(l, calls, okOnly) ==
    IF l = <<>> THEN 0
    ELSE (IF l[1].call \in calls /\ (l[1].ok \/ ~okOnly) THEN 1 ELSE 0)
         + Count(Tail(l), calls, okOnly)

\* No table is being profiled.
NoTable == DataFrame(<<>>, <<>>, <<>>)

ValidationIdle ==
    /\ given = NoTable
    /\ df = NoTable
    /\ profiles = <<>>

\* No percentage has been computed.
NoPercentage == [missing_count |-> 0, total_rows |-> 0, percentage |-> NaN]

PercentageIdle == mv = NoPercentage

\* No manager has been constructed and the collection does not exist yet.
NoAnswer ==
    [op |-> "none", who |-> 0, ok |-> TRUE, val |-> NoValue, exc |-> <<>>, before |-> <<>>]

MetadataIdle ==
    /\ collection = Collection(<<>>, FALSE, 0)
    /\ managers = <<>>
    /\ answer = NoAnswer

\* No DataManager has been constructed.
NoManager == DataManagerInit(None, None, None, None,
                             [POSTGRES_HOST |-> None, POSTGRES_DB |-> None,
                              POSTGRES_USER |-> None, POSTGRES_PASSWORD |-> None])

ManagerIdle ==
    /\ dm = NoManager
    /\ scope = [at |-> "none", exc |-> <<>>, queries |-> 0, val |-> NoValue]

ReaderIdle ==
    /\ pc = "new"
    /\ reader = NoReader
    /\ fs = "missing"
    /\ sheet_names = Workbook(1)
    /\ result = Outcome("none", Return(NoValue, <<>>))
    /\ log = <<>>
    /\ loads = 0
    /\ openEngines = 0
    /\ built = NoReader

\* -------------------------------------------------------- the reader's life

Init ==
    /\ pc = "new"
    /\ reader = NoReader
    /\ fs \in {"missing", "file", "dir"}
    /\ sheet_names \in Workbooks
    /\ result = Outcome("none", Return(NoValue, <<>>))
    /\ log = <<>>
    /\ loads = 0
    /\ openEngines = 0
    /\ built = NoReader
    /\ ValidationIdle
    /\ PercentageIdle
    /\ MetadataIdle
    /\ ManagerIdle

\* reader = DataReader(data_path, data_source, **kwargs)
Construct ==
    /\ pc = "new"
    /\ \E data_path \in Paths, data_source \in Sources, kwargs \in KwargsSet :
         LET r == DataReaderInit(data_path, data_source, kwargs, fs)
         IN /\ pc' = IF r.ok THEN "ready" ELSE "failed"
            /\ reader' = IF r.ok THEN r.val
                         ELSE Reader(data_path, data_source, kwargs, Unset)
            /\ built' = IF r.ok THEN r.val
                        ELSE Reader(data_path, data_source, kwargs, Unset)
            /\ result' = Outcome("init", [r EXCEPT !.val = NoValue])
            /\ log' = r.log
    /\ UNCHANGED <<fs, sheet_names, loads, openEngines>>
    /\ UNCHANGED <<validationVars, percentageVars, metadataVars, managerVars>>

\* reader.load_data()
LoadData ==
    /\ pc = "ready"
    /\ loads < MaxLoads
    /\ \E env \in Envs :
         LET r == LoadDataOp(reader, sheet_names, env)
         IN /\ result' = Outcome("load", r)
            /\ log' = r.log
            /\ openEngines' = openEngines + Count(r.log, {"create_engine"}, TRUE)
                                          - Count(r.log, {"engine.dispose"}, TRUE)
    /\ reader' = SelfAfterLoad(reader)
    /\ loads' = loads + 1
    /\ UNCHANGED <<pc, fs, sheet_names, built>>
    /\ UNCHANGED <<validationVars, percentageVars, metadataVars, managerVars>>

Next == Construct \/ LoadData

Spec == Init /\ [][Next]_vars

\* ------------------------------------------------- the profile of a table

\* The cells tried: a missing entry and the values 1..MaxValue.
Cells == {NaN} \cup {<<v>> : v \in 1..MaxValue}

\* The columns tried: none, a numeric one, an object one, both.
Schemas ==
    {[columns |-> <<>>, dtypes |-> <<>>],
     [columns |-> <<"a">>, dtypes |-> <<"number">>],
     [columns |-> <<"b">>, dtypes |-> <<"object">>],
     [columns |-> <<"a", "b">>, dtypes |-> <<"number", "object">>]}

\* The tables of a schema with up to MaxRows rows; a table without columns has
\* no rows.
TablesOf(schema) ==
    LET width == Len(schema.columns)
        heights == IF width = 0 THEN {0} ELSE 0..MaxRows
    IN {DataFrame(schema.columns, schema.dtypes, rows) :
            rows \in UNION {[1..n -> [1..width -> Cells]] : n \in heights}}

\* The table of one numeric column with the given cells.
OneColumn(cells) ==
    DataFrame(<<"a">>, <<"number">>, [i \in DOMAIN cells |-> <<cells[i]>>])

\* Longer columns: one with a far value, the same with a missing entry, one
\* whose quartiles are both 4, one whose largest value is its upper bound.
FarValue == OneColumn(<<<<1>>, <<2>>, <<2>>, <<3>>, <<4>>, <<5>>, <<100>>>>)

FarValueAndGap == OneColumn(<<<<1>>, <<2>>, NaN, <<2>>, <<3>>, <<4>>, <<5>>, <<100>>>>)

EqualQuartiles == OneColumn(<<<<4>>, <<4>>, <<0>>, <<4>>, <<4>>>>)

OnTheBound == OneColumn(<<<<0>>, <<0>>, <<2>>, <<2>>, <<5>>>>)

\* A row with a missing entry three times over, and a table of both columns
\* with repeats among its values.
Repeats ==
    DataFrame(<<"a", "b">>, <<"number", "object">>,
              <<<<NaN, <<1>>>>, <<<<1>>, <<1>>>>, <<NaN, <<1>>>>, <<NaN, <<1>>>>>>)

Mixed ==
    DataFrame(<<"a", "b">>, <<"number", "object">>,
              <<<<<<1>>, <<1>>>>, <<<<2>>, <<1>>>>, <<NaN, <<2>>>>, <<<<2>>, NaN>>,
                <<<<3>>, <<3>>>>>>)

LongTables == {FarValue, FarValueAndGap, EqualQuartiles, OnTheBound, Repeats, Mixed}

InitValidation ==
    /\ ManagerIdle
    /\ ReaderIdle
    /\ \E schema \in Schemas : given \in TablesOf(schema) \cup LongTables
    /\ df = given
    /\ profiles = <<>>
    /\ PercentageIdle
    /\ MetadataIdle

\* summary = DataValidation.generate_summary(df)
GenerateSummary ==
    /\ Len(profiles) < MaxCalls
    /\ LET r == GenerateSummaryOp(df)
       IN /\ profiles' = Append(profiles, r.summary)
          /\ df' = r.df
    /\ UNCHANGED <<given, readerVars, percentageVars, metadataVars, managerVars>>

NextValidation == GenerateSummary

SpecValidation == InitValidation /\ [][NextValidation]_vars

\* ------------------------------------------- the percentage of one column

\* The row counts tried: 1..MaxTotal and LargeTotal; the missing counts tried:
\* up to MaxTotal of them.
Totals == 1..MaxTotal \cup {LargeTotal}

InitPercentage ==
    /\ ManagerIdle
    /\ ReaderIdle
    /\ ValidationIdle
    /\ PercentageIdle
    /\ MetadataIdle

\* The percentage check_missing_values reports for a column of total_rows
\* entries, missing_count of them missing.
ComputePercentage ==
    /\ mv = NoPercentage
    /\ \E total_rows \in Totals :
         \E missing_count \in 0..(IF total_rows < MaxTotal THEN total_rows ELSE MaxTotal) :
            mv' = [missing_count |-> missing_count,
                   total_rows |-> total_rows,
                   percentage |-> MissingPercentage(missing_count, total_rows)]
    /\ UNCHANGED <<readerVars, validationVars, metadataVars, managerVars>>

NextPercentage == ComputePercentage

SpecPercentage == InitPercentage /\ [][NextPercentage]_vars

\* ------------------------------------------------------ the metadata store

\* The dashboard names tried.
Names == {"sales", "covid"}

\* The tables handed to a manager: one numeric column of three values, and
\* one of six values, five of them equal, and a missing entry.
ManagedTables ==
    {OneColumn(<<<<1>>, <<2>>, <<3>>>>),
     OneColumn(<<<<1>>, <<1>>, NaN, <<1>>, <<1>>, <<1>>, <<2>>>>)}

InitMetadata ==
    /\ ManagerIdle
    /\ ReaderIdle
    /\ ValidationIdle
    /\ PercentageIdle
    /\ MetadataIdle

Reply(op, who, r, before) ==
    [op |-> op, who |-> who, ok |-> r.ok, val |-> r.val, exc |-> r.exc, before |-> before]

\* manager = MetadataManager(df, dashboard_name)
NewManager ==
    /\ Len(managers) < MaxManagers
    /\ \E table \in ManagedTables, dashboard_name \in Names :
         LET r == MetadataManagerInit(table, dashboard_name, collection)
         IN /\ managers' = Append(managers, r.self)
            /\ collection' = r.collection
            /\ answer' = Reply("init", Len(managers) + 1, r, collection.docs)
    /\ UNCHANGED <<readerVars, validationVars, percentageVars, managerVars>>

\* manager.generate_metadata(DataValidation.generate_summary(manager.df))
Generate ==
    /\ \E who \in DOMAIN managers :
         \E pick \in Picks(managers[who].df) :
            LET summary == GenerateSummaryOp(managers[who].df).summary
                r == GenerateMetadata(managers[who], summary, pick, collection)
            IN /\ managers' = [managers EXCEPT ![who] = r.self]
               /\ collection' = r.collection
               /\ answer' = Reply("generate", who, r, collection.docs)
    /\ UNCHANGED <<readerVars, validationVars, percentageVars, managerVars>>

\* manager.save_metadata()
Save ==
    /\ collection.ids < MaxIds
    /\ \E who \in DOMAIN managers :
         LET r == SaveMetadata(managers[who], collection)
         IN /\ managers' = [managers EXCEPT ![who] = r.self]
            /\ collection' = r.collection
            /\ answer' = Reply("save", who, r, collection.docs)
    /\ UNCHANGED <<readerVars, validationVars, percentageVars, managerVars>>

\* manager.retrieve_metadata(dashboard_name)
Retrieve ==
    /\ \E who \in DOMAIN managers, dashboard_name \in Names :
         LET r == RetrieveMetadata(managers[who], collection, dashboard_name)
         IN /\ managers' = [managers EXCEPT ![who] = r.self]
            /\ collection' = r.collection
            /\ answer' = Reply("retrieve", who, r, collection.docs)
    /\ UNCHANGED <<readerVars, validationVars, percentageVars, managerVars>>

NextMetadata == NewManager \/ Generate \/ Save \/ Retrieve

SpecMetadata == InitMetadata /\ [][NextMetadata]_vars

\* ------------------------------------------------ the scope of a DataManager

\* The arguments tried for each parameter, and the environments: the
\* variables of .env set, or none of them.
Arguments == {None, "arg"}

Environs ==
    {[POSTGRES_HOST |-> "env", POSTGRES_DB |-> "env", POSTGRES_USER |-> "env",
      POSTGRES_PASSWORD |-> "env"],
     [POSTGRES_HOST |-> None, POSTGRES_DB |-> None, POSTGRES_USER |-> None,
      POSTGRES_PASSWORD |-> None]}

\* What the database does to a `with` statement: create_engine and connect.
Databases ==
    [create_engine : {"ok", "ArgumentError"}, connect : {"ok", "OperationalError"}]

\* What the database answers to a statement.
QueryAnswers == {"ok", "ProgrammingError"}

InitManager ==
    /\ ReaderIdle
    /\ ValidationIdle
    /\ PercentageIdle
    /\ MetadataIdle
    /\ ManagerIdle

Scope(at, exc, queries, val) == [at |-> at, exc |-> exc, queries |-> queries, val |-> val]

\* dm = DataManager(host, database, user, password)
NewDataManager ==
    /\ scope.at = "none"
    /\ \E host \in Arguments, database \in Arguments, user \in Arguments,
          password \in Arguments, environ \in Environs :
         dm' = DataManagerInit(host, database, user, password, environ)
    /\ scope' = Scope("new", <<>>, 0, NoValue)
    /\ UNCHANGED <<readerVars, validationVars, percentageVars, metadataVars>>

\* with dm: -- __enter__ is called; when it raises, the statement is left
\* with the exception and __exit__ is not called.
EnterScope ==
    /\ scope.at = "new"
    /\ \E db \in Databases :
         LET r == Enter(dm, db)
         IN /\ dm' = r.self
            /\ scope' = IF r.ok THEN Scope("body", <<>>, 0, NoValue)
                        ELSE Scope("left", r.exc, 0, NoValue)
    /\ UNCHANGED <<readerVars, validationVars, percentageVars, metadataVars>>

\* dm.run_query(query, read_only) in the body
Query ==
    /\ scope.at = "body"
    /\ scope.queries < MaxQueries
    /\ \E read_only \in BOOLEAN, said \in QueryAnswers :
         LET r == RunQuery(dm, read_only, said)
         IN /\ dm' = r.self
            /\ scope' = Scope(IF r.ok THEN "body" ELSE "raising", r.exc,
                              scope.queries + 1, r.val)
    /\ UNCHANGED <<readerVars, validationVars, percentageVars, metadataVars>>

\* dm.import_df(df, table_name) in the body
Import ==
    /\ scope.at = "body"
    /\ scope.queries < MaxQueries
    /\ \E said \in QueryAnswers :
         LET r == ImportDf(dm, said)
         IN /\ dm' = r.self
            /\ scope' = Scope(IF r.ok THEN "body" ELSE "raising", r.exc,
                              scope.queries + 1, r.val)
    /\ UNCHANGED <<readerVars, validationVars, percentageVars, metadataVars>>

\* The body ends or has raised: __exit__ is called, and an exception of the
\* body leaves the statement with it.
ExitScope ==
    /\ scope.at \in {"body", "raising"}
    /\ LET r == Exit(dm)
       IN /\ dm' = r.self
          /\ scope' = Scope("left", scope.exc, scope.queries, scope.val)
    /\ UNCHANGED <<readerVars, validationVars, percentageVars, metadataVars>>

NextManager == NewDataManager \/ EnterScope \/ Query \/ Import \/ ExitScope

SpecManager == InitManager /\ [][NextManager]_vars

\* ------------------------------------------------------------------ claims

\* The source is read from the local filesystem: data_source is none of the
\* remote kinds.
LocalSource == reader.data_source \notin {"s3", "azure", "database"}

\* The extension of the reader's path is outside the supported set.
UnsupportedExtension ==
    DropFirst(LowerSeq(PathSuffix(reader.data_path))) \notin SUPPORTED_FORMATS

Constructed == result.op = "init"

Loaded == result.op = "load"

\* The calls that read or decode the source's data.
ReadCalls == FetchCalls \cup DecodeCalls \cup {"parse"}

\* C1: constructing a reader for a local source whose path has an unsupported
\* extension fails with the unsupported-format error and without any access
\* to the filesystem, whether or not the path exists.
C1_FormatCheckBeforePathCheck ==
    (Constructed /\ LocalSource /\ UnsupportedExtension) =>
        /\ ~result.ok
        /\ result.exc = Exc("ValueError", "Unsupported format")
        /\ log = <<>>

\* C1's case: d.txt, which does not exist, was refused.
C1_Witness ==
    /\ Constructed
    /\ pc = "failed"
    /\ LocalSource
    /\ reader.data_path = <<"d", ".", "t", "x", "t">>
    /\ fs = "missing"

Taxonomy ==
    {"PathNotFoundError", "NotAFileError", "UnsupportedFormatError",
     "BackendConnectionError", "DecodeError", "DataLoadingError"}

\* The exception at the end of e's chain of causes.
RootCause(e) == <<e[Len(e)]>>

C4_WrappedExactlyOnce ==
    (Loaded /\ ~result.ok) =>
        /\ Len(result.exc) = 2
        /\ result.exc[1].type = "DataLoadingError"
        /\ <<result.exc[2]>> = result.origin

\* The sheets a load of the reader's workbook is to return, in order.
ExpectedSheets ==
    IF Len(Get(reader.kwargs, "sheets", <<>>)) > 0
    THEN reader.kwargs.sheets
    ELSE sheet_names

\* One table per expected sheet, in order.
ExpectedTables == TableList([i \in 1..Len(ExpectedSheets) |-> Table(ExpectedSheets[i])])

\* C5: load_data ends with a complete table, or the complete list of a
\* workbook's tables, or with an exception and no table: when sheet k fails,
\* the tables of the sheets before it do not reach the caller.
C5_LoadAtomic ==
    Loaded =>
        /\ result.ok =>
             \/ result.val.kind = "table"
             \/ result.val.kind = "list" /\ result.val = ExpectedTables
        /\ ~result.ok => result.val = NoValue

\* C5's case: a sheet was parsed, the next one failed, and the caller got no
\* table.
C5_Witness ==
    /\ Loaded
    /\ ~result.ok
    /\ result.val = NoValue
    /\ \E i \in 1..(Len(log) - 1) :
         /\ log[i].call = "parse" /\ log[i].ok
         /\ log[i + 1].call = "parse" /\ ~log[i + 1].ok

\* C6: no engine created by a database fetch is left open once load_data has
\* returned or raised.
C6_EngineReleased == openEngines = 0

BackendFor(data_source) ==
    IF data_source \in {"s3", "azure", "database"} THEN data_source ELSE "file"

\* The backends the calls of log l went to.
Touched(l) == {BackendOf(l[i].call) : i \in DOMAIN l} \ {"memory"}

\* C8: load_data goes to the one backend data_source selects; s3 and azure,
\* once their client is set up, fetch a payload, which is decoded when the
\* fetch succeeds; database decodes nothing and resolves no format.
C8_OneBackendPerSource ==
    Loaded =>
        /\ Touched(log) \subseteq {BackendFor(reader.data_source)}
        /\ reader.data_source = "database" =>
             reader.file_type = Unset /\ Count(log, DecodeCalls, FALSE) = 0
        /\ (/\ reader.data_source \in {"s3", "azure"}
            /\ Count(log, {"boto3.client", "azure.client"}, TRUE) = 1) =>
             /\ Count(log, FetchCalls, FALSE) = 1
             /\ Count(log, FetchCalls, TRUE) = 1 => Count(log, DecodeCalls, FALSE) = 1

\* The calls to the object stores' clients.
ObjectStoreCalls == {"boto3.client", "s3.get_object", "azure.client", "azure.download_blob"}

\* C9: when a call to the S3 or the Azure client fails, whatever it raises,
\* the object-store loader wraps it, with the failure as the wrapper's cause.
C9_ObjectStoreFailuresWrapped ==
    (/\ Loaded
     /\ reader.data_source \in {"s3", "azure"}
     /\ Count(log, ObjectStoreCalls, FALSE) > Count(log, ObjectStoreCalls, TRUE)) =>
        \E i \in 1..(Len(result.exc) - 1) :
            /\ result.exc[i].msg \in {"S3 error", "Azure Blob error"}
            /\ <<result.exc[i + 1]>> = result.origin

\* C10: a successful load of a spreadsheet returns the list of one table per
\* requested sheet in the requested order, or per sheet of the workbook in
\* the workbook's order when none was requested.
C10_OneTablePerSheet ==
    (Loaded /\ result.ok /\ reader.file_type = xlsx) =>
        result.val.kind = "list" /\ result.val = ExpectedTables

\* The calls that decode parquet, from a file or from a payload.
ParquetDecodes == {"read_parquet", "read_parquet(bytes)"}

\* The reader's engine keyword is outside the allow-list.
EngineRefused == Get(reader.kwargs, "engine", "auto") \notin PARQUET_ENGINES

\* C11: a load of a parquet source whose engine is outside the allow-list
\* fails, and fails before any attempt to decode parquet is made, whether the
\* source is a local file or a payload from an object store.
C11_EngineCheckedOnEveryPath ==
    (Loaded /\ reader.file_type = parquet /\ EngineRefused) =>
        /\ ~result.ok
        /\ Count(log, ParquetDecodes, FALSE) = 0

\* The tag of each path tried, worked out by hand: the text after the last
\* dot of the last component, lower-cased, when that dot is neither the
\* component's first character nor its last.
Tag(data_path) ==
    CASE data_path = <<"d", ".", "c", "s", "v">> -> csv
      [] data_path = <<"d", ".", "C", "S", "V">> -> csv
      [] data_path = <<"d", ".", "t", "x", "t">> -> <<"t", "x", "t">>
      [] data_path = <<"d", ".", "x", "l", "s", "x">> -> xlsx
      [] data_path = <<"d", ".", "p", "a", "r", "q", "u", "e", "t">> -> parquet
      [] data_path = <<"d", ".", "j", "s", "o", "n">> -> json
      [] OTHER -> <<>>

\* A format keyword was given and names a supported format.
HintGiven ==
    /\ "format" \in DOMAIN reader.kwargs
    /\ reader.kwargs.format \in SUPPORTED_FORMATS

\* C12 as stated: when a format hint is supplied, construction resolves the
\* format to the hint, whatever the extension of the location.
C12_HintOverridesExtension ==
    (pc # "new" /\ reader.data_source \in {"s3", "azure"} /\ HintGiven) =>
        pc = "ready" /\ reader.file_type = reader.kwargs.format

\* C12, amended: the format of every source but a database is the trailing
\* extension of the location, lower-cased and without its dot, and nothing
\* else: a format keyword is kept in kwargs and never read.  A reader exists
\* only with a tag of the supported set; any other tag is refused with
\* ValueError("Unsupported format"); a remote location with a supported tag
\* is accepted.  For a database no format is resolved.
C12_TagIsLowercasedExtension ==
    /\ (pc = "ready" /\ reader.data_source # "database") =>
         /\ reader.file_type = Tag(reader.data_path)
         /\ reader.file_type \in SUPPORTED_FORMATS
    /\ (pc # "new" /\ reader.data_source # "database"
                  /\ Tag(reader.data_path) \notin SUPPORTED_FORMATS) =>
         /\ pc = "failed"
         /\ Constructed => result.exc = Exc("ValueError", "Unsupported format")
    /\ (pc # "new" /\ reader.data_source \in {"s3", "azure"}
                  /\ Tag(reader.data_path) \in SUPPORTED_FORMATS) =>
         pc = "ready"
    /\ (pc # "new" /\ reader.data_source = "database") =>
         pc = "ready" /\ reader.file_type = Unset

\* C12's case: d.json was given with format="csv" and resolved to json.
C12_Witness ==
    /\ pc = "ready"
    /\ HintGiven
    /\ reader.data_path = <<"d", ".", "j", "s", "o", "n">>
    /\ reader.file_type = json

\* C13: constructing a reader of kind s3, azure or database touches no
\* filesystem and succeeds for every location whose format resolves (for
\* every location at all when the kind is database); for every other
\* data_source construction checks the location and succeeds only if it is an
\* existing regular file.
C13_ExistenceCheckedForLocalOnly ==
    Constructed =>
        /\ reader.data_source \in {"s3", "azure"} =>
             /\ log = <<>>
             /\ result.ok <=> Tag(reader.data_path) \in SUPPORTED_FORMATS
        /\ reader.data_source = "database" => log = <<>> /\ result.ok
        /\ LocalSource =>
             /\ result.ok => fs = "file"
             /\ result.ok <=> (fs = "file" /\ Tag(reader.data_path) \in SUPPORTED_FORMATS)
             /\ result.ok => Count(log, {"exists", "is_file"}, TRUE) = 2

\* C13's case: a reader of kind s3 was constructed for d.csv, which is not
\* on the filesystem.
C13_Witness ==
    /\ Constructed
    /\ result.ok
    /\ reader.data_source = "s3"
    /\ reader.data_path = <<"d", ".", "c", "s", "v">>
    /\ fs = "missing"

\* generate_summary has returned at least once, and what it returned last.
Profiled == Len(profiles) > 0

LastProfile == profiles[Len(profiles)]

\* The distinct rows of a table.
DistinctRows(table) == {table.rows[i] : i \in DOMAIN table.rows}

C15_DuplicatesAreRepeats ==
    Profiled =>
        LastProfile.duplicate_rows = RowCount(given) - Cardinality(DistinctRows(given))

\* C15's case: a row with a missing entry occurs three times.
C15_Witness ==
    /\ Profiled
    /\ LastProfile.duplicate_rows = 2
    /\ \E i \in DOMAIN given.rows :
         /\ \E j \in DOMAIN given.rows[i] : given.rows[i][j] = NaN
         /\ Cardinality({k \in DOMAIN given.rows : given.rows[k] = given.rows[i]}) = 3

\* A percentage has been computed; it is mv.percentage[1] hundredths.
Computed == mv # NoPercentage

\* The percentage is the hundredth nearest to missing_count / total_rows * 100.
NearestHundredth ==
    LET exact == mv.missing_count * 10000
        reported == mv.percentage[1] * mv.total_rows
    IN /\ 2 * (reported - exact) <= mv.total_rows
       /\ 2 * (exact - reported) <= mv.total_rows

\* C16 as stated: the percentage is the count over the row count, rounded to
\* two decimal places, lies between 0 and 100, and is 0 exactly when the
\* count is 0.
C16_ZeroOnlyWithoutMissing ==
    Computed =>
        /\ mv.percentage # NaN
        /\ NearestHundredth
        /\ mv.percentage[1] \in 0..10000
        /\ mv.percentage[1] = 0 <=> mv.missing_count = 0

\* C16, amended: for a table of at least one row the percentage is the count
\* over the row count, rounded to two decimal places (2 of 10 is 20.00), lies
\* between 0 and 100 and is 0 when the count is 0; it is also 0 for a positive
\* count of at most 0.005% of the rows (1 of 30,000), and for no other.
C16_PercentageRounded ==
    Computed =>
        /\ mv.percentage # NaN
        /\ NearestHundredth
        /\ mv.percentage[1] \in 0..10000
        /\ mv.missing_count = 0 => mv.percentage[1] = 0
        /\ mv.percentage[1] = 0 => mv.missing_count * 20000 <= mv.total_rows
        /\ (mv.missing_count = 2 /\ mv.total_rows = 10) => mv.percentage[1] = 2000

\* C16's case: 2 missing entries in 10 rows are 20.00 percent.
C16_Witness ==
    mv = [missing_count |-> 2, total_rows |-> 10, percentage |-> <<2000>>]

\* What check_outliers is to report for a column: bounds in eighths.
Report(lower_bound, upper_bound, outlier_count) ==
    [lower_bound |-> <<lower_bound>>, upper_bound |-> <<upper_bound>>,
     outlier_count |-> outlier_count]

\* The rows whose cell in column c lies strictly outside the reported bounds.
Outside(table, c, bounds) ==
    {i \in DOMAIN table.rows :
        LET cell == table.rows[i][Position(table, c)]
        IN /\ cell # NaN
           /\ \/ 8 * cell[1] < bounds.lower_bound[1]
              \/ 8 * cell[1] > bounds.upper_bound[1]}

\* C17: check_outliers reports the numeric columns and no other; a column's
\* count is the number of its values strictly outside the reported bounds, a
\* value on a bound not being one; the bounds are Q1 - 1.5 IQR and
\* Q3 + 1.5 IQR of the interpolated quartiles: -1.75 and 8.25 for
\* [1,2,2,3,4,5,100], whose one outlier is 100, 4 and 4 for [4,4,0,4,4],
\* -3 and 5 for [0,0,2,2,5].
C17_OutliersStrictlyOutside ==
    Profiled =>
        LET outliers == LastProfile.outliers
        IN /\ DOMAIN outliers =
                {given.columns[j] : j \in {k \in DOMAIN given.columns :
                                               given.dtypes[k] = "number"}}
           /\ \A c \in DOMAIN outliers :
                IF \A i \in DOMAIN given.rows : given.rows[i][Position(given, c)] = NaN
                THEN outliers[c] = [lower_bound |-> NaN, upper_bound |-> NaN,
                                    outlier_count |-> 0]
                ELSE /\ outliers[c].lower_bound[1] <= outliers[c].upper_bound[1]
                     /\ outliers[c].outlier_count =
                            Cardinality(Outside(given, c, outliers[c]))
           /\ given = FarValue =>
                outliers["a"] = Report(-14, 66, 1) /\ Outside(given, "a", outliers["a"]) = {7}
           /\ given = FarValueAndGap =>
                outliers["a"] = Report(-14, 66, 1) /\ Outside(given, "a", outliers["a"]) = {8}
           /\ given = EqualQuartiles => outliers["a"] = Report(32, 32, 1)
           /\ given = OnTheBound => outliers["a"] = Report(-24, 40, 0)

\* C17's case: the example column was profiled and its outlier found.
C17_Witness ==
    /\ Profiled
    /\ given = FarValue
    /\ LastProfile.outliers["a"].outlier_count = 1

\* The entries of column c that are not missing.
PresentEntries(table, c) ==
    {i \in DOMAIN table.rows : table.rows[i][Position(table, c)] # NaN}

\* C18: check_unique_values reports for each column the number of distinct
\* values among its entries that are not missing: 0 when all are missing, and
\* never more than the number of entries that are not missing.
C18_UniqueSkipsMissing ==
    Profiled =>
        /\ DOMAIN LastProfile.unique_values = Columns(given)
        /\ \A c \in Columns(given) :
             LET present == PresentEntries(given, c)
                 count == LastProfile.unique_values[c]
             IN /\ count = Cardinality({given.rows[i][Position(given, c)] : i \in present})
                /\ count <= Cardinality(present)
                /\ present = {} => count = 0

\* C18's case: a column of two rows, both missing, has no unique value.
C18_Witness ==
    /\ Profiled
    /\ \E c \in Columns(given) :
         /\ RowCount(given) = 2
         /\ PresentEntries(given, c) = {}
         /\ LastProfile.unique_values[c] = 0

\* C19: the profile of a table without rows has every count and every
\* percentage zero.
C19_EmptyTableAllZero ==
    (Profiled /\ RowCount(given) = 0) =>
        /\ \A c \in Columns(given) :
             /\ LastProfile.missing_values.missing_counts[c] = 0
             /\ LastProfile.missing_values.missing_percentage[c] = <<0>>
             /\ LastProfile.unique_values[c] = 0
        /\ LastProfile.duplicate_rows = 0
        /\ \A c \in DOMAIN LastProfile.outliers : LastProfile.outliers[c].outlier_count = 0

\* C20: no two stored records have the same dashboard name, and a
\* save_metadata() on a manager whose name is already stored raises nothing
\* and leaves the collection as it was.
C20_FirstWriterWins ==
    /\ \A i, j \in DOMAIN collection.docs :
         i # j => collection.docs[i].dashboard_name # collection.docs[j].dashboard_name
    /\ (/\ answer.op = "save"
        /\ \E i \in DOMAIN answer.before :
             answer.before[i].dashboard_name = managers[answer.who].dashboard_name) =>
         /\ answer.ok
         /\ collection.docs = answer.before

\* The `with` statement on the DataManager is over.
ScopeLeft == scope.at = "left"

\* C21: once the `with` statement on a DataManager is over, however it
\* ended, the engine __enter__ created is disposed and the connection closed:
\* none of the two is left open.
C21_ReleasedOnEveryExit ==
    ScopeLeft => dm.engine # "open" /\ dm.connection # "open"

LocalTwin ==
    LoadDataOp(Reader(reader.data_path, "local", reader.kwargs, reader.file_type),
               sheet_names, [failAt |-> 0, exc |-> 1])

\* C23: what a load through an object store returns is what the load of the
\* same content as a local file returns: a workbook gives the list of one
\* table per requested sheet, or per sheet present, in both.
C23_SameResultThroughObjectStore ==
    (Loaded /\ result.ok /\ reader.data_source \in {"s3", "azure"}) =>
        /\ LocalTwin.ok
        /\ result.val = LocalTwin.val

\* C24: save_metadata() on a manager that has never generated metadata
\* returns without raising and inserts nothing.
C24_SaveWithoutMetadataReturns ==
    (answer.op = "save" /\ "metadata" \notin DOMAIN managers[answer.who]) =>
        /\ answer.ok
        /\ collection.docs = answer.before

\* The metadata generate_metadata built for a stored document: the document
\* without the _id of the store.
Generated(document) ==
    [dashboard_name |-> document.dashboard_name,
     columns |-> document.columns,
     data_summary |-> document.data_summary]

\* C25: retrieve_metadata of a stored name returns the metadata that was
\* generated and saved under it, and generate_metadata returns one record per
\* column for every table.
C25_RoundTrip ==
    /\ (answer.op = "retrieve" /\ answer.val # NoValue) =>
         \E i \in DOMAIN collection.docs : answer.val = Generated(collection.docs[i])
    /\ answer.op = "generate" =>
         /\ answer.ok
         /\ Len(answer.val.columns) = Len(managers[answer.who].df.columns)

====
